---- MODULE Spec2Model ----
(***************************************************************************)
(* Satirical CO2 purchase calculator (src/app.py).                         *)
(*                                                                         *)
(* Units.  TLC integers are 32 bits wide, so the floats of the script are  *)
(* decimal fixed point here:                                               *)
(*   price_usd        in cents            (1e-2 USD)                       *)
(*   emission factors in hundredths       (0.30 -> 30)                     *)
(*   distance mult.   in tenths           (1.10 -> 11)                     *)
(*   speed penalty    in hundredths       (1.15 -> 115)                    *)
(*   weight_kg        in tenths of a kg   (widget step 0.1)                *)
(*   kg CO2e          in units of 1e-7 kg (cents*1e-2*1e-1*1e-2)           *)
(* Every product of the estimate is exact in these units; sqrt is taken    *)
(* to the gram.                                                            *)
(*                                                                         *)
(* Texts.  A generated text is the sequence of its segments; the script    *)
(* joins the segments with single spaces.  Non-ASCII punctuation of the    *)
(* script's literals is written in ASCII.                                  *)
(*                                                                         *)
(* Optional values (weight_kg: float | None, 'categories': list | None)    *)
(* are sequences of length at most one: << >> is None.                     *)
(***************************************************************************)
EXTENDS Integers, Sequences, FiniteSets, TLC

VARIABLES
  clock,     \* the UTC wall clock, in ticks (datetime.utcnow())
  history,   \* st.session_state.history, newest first
  screen,    \* what the last script run rendered
  nsub,      \* ghost: number of form submissions handled so far
  reports,   \* ghost: every report rendered so far
  call       \* the last direct call of a core function, with its result

vars == <<clock, history, screen, nsub, reports, call>>

---------------------------------------------------------------------------
(* Bounds of the model *)

MaxClock == 2
TicksPerMinute == 2
MaxSubmits == 3
MaxBurst == 8
MaxQuantity == 2
MaxSeedLo == 11

---------------------------------------------------------------------------
(* Tables of the script *)

None == << >>

Some(v) == <<v>>

Min(a, b) == IF a <= b THEN a ELSE b

Max(a, b) == IF a >= b THEN a ELSE b

CategoryKeys ==
  << "Electronics (phone, laptop)",
     "Clothing (fast fashion)",
     "Clothing (sustainable)",
     "Groceries / Food (average)",
     "Groceries / Plant-based",
     "Groceries / Animal-based",
     "Flight / Travel booking (ticket)",
     "Furniture / Home goods",
     "Cosmetics / Personal care",
     "Packaged goods",
     "Books / Media",
     "Sporting goods / Outdoor",
     "Services / Subscriptions",
     "Misc / Other" >>

EMISSION_FACTORS ==
  ("Electronics (phone, laptop)" :> 30) @@
  ("Clothing (fast fashion)" :> 18) @@
  ("Clothing (sustainable)" :> 10) @@
  ("Groceries / Food (average)" :> 22) @@
  ("Groceries / Plant-based" :> 15) @@
  ("Groceries / Animal-based" :> 35) @@
  ("Flight / Travel booking (ticket)" :> 55) @@
  ("Furniture / Home goods" :> 28) @@
  ("Cosmetics / Personal care" :> 12) @@
  ("Packaged goods" :> 14) @@
  ("Books / Media" :> 9) @@
  ("Sporting goods / Outdoor" :> 20) @@
  ("Services / Subscriptions" :> 4) @@
  ("Misc / Other" :> 16)

DistanceKeys ==
  << "Local (same city)", "National (within country)", "International (overseas)" >>

DISTANCE_MULTIPLIERS ==
  ("Local (same city)" :> 10) @@
  ("National (within country)" :> 11) @@
  ("International (overseas)" :> 14)

ShippingSpeeds ==
  << "Standard (5-8 days)", "Two-day", "Express / Overnight" >>

FEEDBACK_TEMPLATES ==
  << << "Oh look - you bought ", "{item}", ". The planet is so thrilled." >>,
     << "Congrats on acquiring ", "{item}", "! Earth will remember... briefly." >>,
     << "Nice choice: ", "{item}", ". Your carbon footprint applauds you silently." >>,
     << "You ordered ", "{item}", ". If guilt were measurable, it'd be in tonnes." >>,
     << "One small purchase for you, one medium sigh from the atmosphere." >>,
     << "You just added ", "{item}",
        " to cart. The clouds sent a thank-you card (unsigned)." >> >>

TIPS_TEMPLATES ==
  << [categories |-> None,
      text |-> << "Try second-hand or refurbished for ", "{category}",
                  ". Vintage has personality and smaller emissions." >>],
     [categories |-> None,
      text |-> << "Repair before replace - local repair cafes do miracles for ",
                  "{category}", "." >>],
     [categories |-> Some({"Flight / Travel booking (ticket)"}),
      text |-> << "If it's a flight: consider trains, or bundle trips and fly less often to cut emissions." >>],
     [categories |-> Some({"Electronics (phone, laptop)"}),
      text |-> << "For electronics: keep it 3-5 years longer, and recycle responsibly when done." >>],
     [categories |-> Some({"Clothing (fast fashion)", "Clothing (sustainable)"}),
      text |-> << "Choose natural fibers or properly certified sustainable brands for long-term wear." >>],
     [categories |-> Some({"Groceries / Animal-based"}),
      text |-> << "Swap one animal-based meal a week for plant-based - small change, real impact." >>],
     [categories |-> Some({"Furniture / Home goods"}),
      text |-> << "For furniture, buy solid and locally-made - heavy items travel the world already." >>],
     [categories |-> Some({"Packaged goods"}),
      text |-> << "Avoid single-use packaging: bring your own container or buy in bulk." >>],
     [categories |-> None,
      text |-> << "Turn off fast shipping - slower delivery reduces freight emissions." >>],
     [categories |-> None,
      text |-> << "If you're feeling guilty, opt for high-quality and fewer items; it outlives the trend cycles." >>],
     [categories |-> None,
      text |-> << "Check the brand's transparency reports - transparency often means better practices." >>] >>

PUNCHLINES ==
  << "(Future you owes present you an explanation.)",
     "(Your carbon spreadsheet has been updated.)",
     "(Mood: fashionable, atmosphere: not so much.)",
     "(This tip brought to you with minimal irony.)",
     "(Do one small thing - then another tomorrow.)" >>

SARCASTIC_SUFFIXES ==
  << "(Your carbon ledger has been updated.)",
     "(No refunds accepted from atmosphere.)",
     "(Sustainability: now available as an optional extra.)",
     "(Ask again in 5-10 business years.)",
     "(This message brought to you by fossil fuels.)" >>

intensity_map ==
  [mild |-> << "Barely a ripple.",
               "You could buy this daily and still be forgettable." >>,
   noticeable |-> << "A proper puff of CO2.",
                     "You just made a small but measurable dent." >>,
   strong |-> << "That's the kind of purchase museums will catalog.",
                 "Atmosphere: concerned." >>,
   epic |-> << "Monumental. The clouds sent flowers.",
               "You unlocked a carbon achievement: 'The Tower'." >>]

ExtraExpress == "Skip express shipping next time - it's pricey for the planet."

ExtraHeavy == "For heavy items, prefer consolidated shipping or local pickup."

ExtraInternational == "Check if a local equivalent exists to avoid long-haul transport."

---------------------------------------------------------------------------
(* Library stand-ins: str.format / str.replace, hashlib.sha256, random.Random *)

RECURSIVE Substitute(_, _, _)
\* tmpl.format(item=v), tip.replace('{category}', v): the pieces of the
\* template concatenated, every piece equal to the placeholder replaced by v.
Substitute(pieces, placeholder, v) ==
  IF pieces = << >> THEN ""
  ELSE (IF Head(pieces) = placeholder THEN v ELSE Head(pieces))
       \o Substitute(Tail(pieces), placeholder, v)

Word == 2 ^ 16

\* The strings the form can submit; a string's bytes are stood for by its
\* position in this table.
StringTable ==
  << "", "AirPods Pro", "Red T-shirt" >> \o CategoryKeys \o DistanceKeys \o ShippingSpeeds

StrCode(s) == CHOOSE i \in DOMAIN StringTable : StringTable[i] = s

\* h.update(...): one code absorbed into a digest of four 16-bit limbs
\* (a stand-in for SHA-256: deterministic, every limb depends on all input).
Absorb(d, c) ==
  LET d1 == (d[1] * 31 + c + 1) % Word
      d2 == (d[2] * 17 + d1) % Word
      d3 == (d[3] * 13 + d2 + 7) % Word
      d4 == (d[4] * 29 + d3 + c) % Word
  IN  << d1, d2, d3, d4 >>

RECURSIVE Sha256(_, _)
Sha256(d, codes) ==
  IF codes = << >> THEN d ELSE Sha256(Absorb(d, Head(codes)), Tail(codes))

\* int(h.hexdigest(), 16) % (2**32): the two low limbs of the digest.
Mod2_32(d) == [hi |-> d[3], lo |-> d[4]]

\* seed_val + n on the (hi, lo) pair; Python integers do not wrap.
SeedPlus(seed_val, n) ==
  [hi |-> seed_val.hi + (seed_val.lo + n) \div Word,
   lo |-> (seed_val.lo + n) % Word]

\* random.Random(seed): the generator's initial state (a stand-in for the
\* Mersenne Twister: a full-period 16-bit congruential generator).
Random(seed_val) == (seed_val.lo + 251 * seed_val.hi) % Word

RECURSIVE BitLength(_)
BitLength(n) == IF n = 0 THEN 0 ELSE 1 + BitLength(n \div 2)

\* r.getrandbits(k): advance the generator, return the top k bits of its word.
GetRandBits(r, k) ==
  LET next == (r * 25173 + 13849) % Word
  IN  [r |-> next, val |-> next \div (2 ^ (16 - k))]

RECURSIVE RandBelow(_, _)
\* Random._randbelow_with_getrandbits: redraw until the value is below n.
RandBelow(r, n) ==
  LET g == GetRandBits(r, BitLength(n))
  IN  IF g.val < n THEN g ELSE RandBelow(g.r, n)

\* r.choice(seq): one draw; the generator after it and the element chosen.
Choice(r, seq) ==
  LET g == RandBelow(r, Len(seq))
  IN  [r |-> g.r, val |-> seq[g.val + 1]]

---------------------------------------------------------------------------
(* Utility functions *)

\* Faulty variant: a bucket of one tick ("%Y%m%d%H%M%S").
Strftime_Seconds(t) == t

\* strftime("%Y%m%d%H%M") of a clock reading: the UTC minute it falls in.
Strftime(t) == t \div TicksPerMinute

\* deterministic_seed(*parts), at its one call site's seven parts.  Reads the
\* clock.  The codes stand for the bytes of "|".join(map(str, parts)) + minute.
deterministic_seed(item_name, category, price, quantity, weight, distance, shipping_speed) ==
  LET base == << StrCode(item_name), StrCode(category), price, quantity, weight,
                 StrCode(distance), StrCode(shipping_speed) >>
      minute == Strftime(clock)
  IN  Mod2_32(Sha256(<< 0, 0, 0, 0 >>, base \o << minute >>))

---------------------------------------------------------------------------
(* Core calculation *)

\* dict.get(key, default)
DictGet(d, key, default) == IF key \in DOMAIN d THEN d[key] ELSE default

RECURSIVE IsqrtBetween(_, _, _)
\* the largest r in lo..hi with r * r <= n  (lo * lo <= n is given)
IsqrtBetween(n, lo, hi) ==
  IF lo >= hi THEN lo
  ELSE LET mid == (lo + hi + 1) \div 2
       IN  IF mid * mid <= n THEN IsqrtBetween(n, mid, hi)
           ELSE IsqrtBetween(n, lo, mid - 1)

\* math.sqrt(weight_kg) for a weight in tenths of a kg, in thousandths;
\* math.sqrt raises ValueError below zero.
MathSqrt(w) ==
  IF w < 0 THEN [raised |-> "ValueError", val |-> 0]
  ELSE [raised |-> "none", val |-> IsqrtBetween(w * 100000, 0, 46340)]

\* Faulty variant: EMISSION_FACTORS[category], a KeyError for an unknown key.
FactorLookup_NoDefault(category) ==
  IF category \in DOMAIN EMISSION_FACTORS
  THEN [raised |-> "none", val |-> EMISSION_FACTORS[category]]
  ELSE [raised |-> "KeyError", val |-> 0]

\* EMISSION_FACTORS.get(category, EMISSION_FACTORS['Misc / Other'])
FactorLookup(category) ==
  [raised |-> "none",
   val |-> DictGet(EMISSION_FACTORS, category, EMISSION_FACTORS["Misc / Other"])]

\* Faulty variant: a Local multiplier of 1.10.
MultiplierLookup_LocalSurcharge(distance_level) ==
  IF distance_level = "Local (same city)" THEN 11
  ELSE DictGet(DISTANCE_MULTIPLIERS, distance_level, 10)

\* DISTANCE_MULTIPLIERS.get(distance_level, 1.0)
MultiplierLookup(distance_level) == DictGet(DISTANCE_MULTIPLIERS, distance_level, 10)

\* Faulty variant: 1.5 / weight_kg, a term that shrinks as the weight grows.
WeightTerm_Inverse(weight_kg) ==
  IF weight_kg # None /\ weight_kg[1] # 0 /\ weight_kg[1] > 0
  THEN [raised |-> "none", val |-> (15000 \div weight_kg[1]) * 1000]
  ELSE [raised |-> "none", val |-> 0]

\* the weight influence: sqrt(weight_kg) * 1.5 when `weight_kg and weight_kg > 0`
WeightTerm(weight_kg) ==
  IF weight_kg # None /\ weight_kg[1] # 0 /\ weight_kg[1] > 0
  THEN LET s == MathSqrt(weight_kg[1])
       IN  [raised |-> s.raised, val |-> s.val * 15 * 1000]
  ELSE [raised |-> "none", val |-> 0]

\* estimate_emission: the outcome (raised is "none" on a normal return) and
\* kg CO2e.
estimate_emission(category, price_usd, quantity, distance_level, weight_kg, shipping_speed) ==
  LET factor == FactorLookup(category)
      base == price_usd * factor.val * quantity
      multiplier == MultiplierLookup(distance_level)
      result == base * multiplier
      sped == IF shipping_speed = "Express / Overnight" THEN result * 115
              ELSE IF shipping_speed = "Two-day" THEN result * 107
              ELSE result * 100
      term == WeightTerm(weight_kg)
      raised == IF factor.raised # "none" THEN factor.raised ELSE term.raised
  IN  [raised |-> raised,
       kg |-> IF raised = "none" THEN Max(sped + term.val, 0) ELSE 0]

---------------------------------------------------------------------------
(* Message generation *)

\* Faulty variant: <= at the band boundaries.
Intensity_Inclusive(kg_co2) ==
  IF kg_co2 <= 5 * 10 ^ 6 THEN "mild"
  ELSE IF kg_co2 <= 5 * 10 ^ 7 THEN "noticeable"
  ELSE IF kg_co2 <= 5 * 10 ^ 8 THEN "strong"
  ELSE "epic"

\* the intensity band of choose_feedback
Intensity(kg_co2) ==
  IF kg_co2 < 5 * 10 ^ 6 THEN "mild"
  ELSE IF kg_co2 < 5 * 10 ^ 7 THEN "noticeable"
  ELSE IF kg_co2 < 5 * 10 ^ 8 THEN "strong"
  ELSE "epic"

\* Faulty variant: the intensity line drawn before the suffix.
choose_feedback_LineBeforeSuffix(item_name, category, kg_co2, seed_val) ==
  LET r == Random(seed_val)
      tmpl == Choice(r, FEEDBACK_TEMPLATES)
      line == Choice(tmpl.r, intensity_map[Intensity(kg_co2)])
      suffix == Choice(line.r, SARCASTIC_SUFFIXES)
  IN  << Substitute(tmpl.val, "{item}", item_name), line.val, suffix.val >>

\* choose_feedback: the segments of the feedback text
choose_feedback(item_name, category, kg_co2, seed_val) ==
  LET r == Random(seed_val)
      tmpl == Choice(r, FEEDBACK_TEMPLATES)
      suffix == Choice(tmpl.r, SARCASTIC_SUFFIXES)
      line == Choice(suffix.r, intensity_map[Intensity(kg_co2)])
  IN  << Substitute(tmpl.val, "{item}", item_name), line.val, suffix.val >>

\* [t for _, t in TIPS_TEMPLATES]
AllTips == [i \in DOMAIN TIPS_TEMPLATES |-> TIPS_TEMPLATES[i].text]

\* Faulty variant: every template, whatever its condition.
Candidates_Unfiltered(category) == AllTips

\* the relevant templates of choose_tip, in table order; all of them when
\* none is relevant
Candidates(category) ==
  LET keep(t) == t.categories = None \/ category \in t.categories[1]
      kept == SelectSeq(TIPS_TEMPLATES, keep)
      candidates == [i \in DOMAIN kept |-> kept[i].text]
  IN  IF candidates = << >> THEN AllTips ELSE candidates

\* Faulty variant: every qualifying suggestion joined in, without the [:2].
Extras_Uncapped(distance, weight_kg, shipping_speed) ==
  (IF shipping_speed = "Express / Overnight" THEN << ExtraExpress >> ELSE << >>)
  \o (IF weight_kg # None /\ weight_kg[1] # 0 /\ weight_kg[1] > 100
      THEN << ExtraHeavy >> ELSE << >>)
  \o (IF distance = "International (overseas)"
      THEN << ExtraInternational >> ELSE << >>)

\* the conditional suggestions of choose_tip, as joined into the tip: extras[:2]
Extras(distance, weight_kg, shipping_speed) ==
  LET extras ==
        (IF shipping_speed = "Express / Overnight" THEN << ExtraExpress >> ELSE << >>)
        \o (IF weight_kg # None /\ weight_kg[1] # 0 /\ weight_kg[1] > 100
            THEN << ExtraHeavy >> ELSE << >>)
        \o (IF distance = "International (overseas)"
            THEN << ExtraInternational >> ELSE << >>)
  IN  SubSeq(extras, 1, Min(2, Len(extras)))

\* choose_tip: the segments of the tip text
choose_tip(category, distance, weight_kg, shipping_speed, seed_val) ==
  LET r == Random(SeedPlus(seed_val, 7))
      picked == Choice(r, Candidates(category))
      tip == Substitute(picked.val, "{category}", category)
      punch == Choice(picked.r, PUNCHLINES)
  IN  << tip >> \o Extras(distance, weight_kg, shipping_speed) \o << punch.val >>

---------------------------------------------------------------------------
(* The Streamlit script: one run per page load or form submission *)

\* kg * 0.90
Offset(kg) == (kg \div 10) * 9 + ((kg % 10) * 9) \div 10

\* round(kg_after, 3): to the gram, ties to even
Round3(kg) ==
  LET q == kg \div 10000
      rem == kg % 10000
      up == rem > 5000 \/ (rem = 5000 /\ q % 2 = 1)
  IN  (IF up THEN q + 1 ELSE q) * 10000

\* Faulty variant: list.append(entry).
Insert0_Append(list, entry) == Append(list, entry)

\* list.insert(0, entry)
Insert0(list, entry) == << entry >> \o list

\* st.session_state.history[:7]
HistoryShown == 7

Recent(list) == SubSeq(list, 1, Min(Len(list), HistoryShown))

\* What the purchase form can submit.  The number_input widgets hold price at
\* min_value=0.0, quantity at min_value=1 and weight at min_value=0.0; the
\* select boxes offer the keys of the tables.
FormValues ==
  [item_name : {"", "AirPods Pro"},
   category : {"Electronics (phone, laptop)", "Flight / Travel booking (ticket)"},
   price : {4999},
   quantity : {1},
   weight : {0},
   distance : {"International (overseas)"},
   shipping_speed : {"Express / Overnight"},
   donate_offset : BOOLEAN]

\* the purchases of a session: a named or unnamed electronics item, or an
\* unnamed flight, each with and without the offset box ticked
Purchases ==
  {p \in FormValues : p.category = "Electronics (phone, laptop)" \/ p.item_name = ""}

\* the purchases of a burst: the unnamed electronics item, box ticked or not
BurstPurchases ==
  {p \in Purchases : p.item_name = "" /\ p.category = "Electronics (phone, laptop)"}

\* the seven parts the seed is derived from
Fields(p) ==
  << p.item_name, p.category, p.price, p.quantity, p.weight, p.distance,
     p.shipping_speed >>

\* `if submitted:` - the script run of a form submission
Submit(p) ==
  LET seed_val == deterministic_seed(p.item_name, p.category, p.price, p.quantity,
                                     p.weight, p.distance, p.shipping_speed)
      kg == estimate_emission(p.category, p.price, p.quantity, p.distance,
                              IF p.weight > 0 THEN Some(p.weight) ELSE None,
                              p.shipping_speed).kg
      kg_after == IF p.donate_offset THEN Offset(kg) ELSE kg
      feedback == choose_feedback(IF p.item_name # "" THEN p.item_name ELSE p.category,
                                  p.category, kg_after, seed_val)
      tip == choose_tip(p.category, p.distance, Some(p.weight), p.shipping_speed,
                        seed_val)
      entry == [time |-> clock, item |-> p.item_name, category |-> p.category,
                price |-> p.price, quantity |-> p.quantity,
                kg_co2 |-> Round3(kg_after)]
      inserted == Insert0(history, entry)
  IN  /\ history' = inserted
      /\ screen' = [kind |-> "report", item |-> IF p.item_name # "" THEN p.item_name ELSE "- unnamed purchase -",
                    category |-> p.category, kg_after |-> kg_after, feedback |-> feedback, tip |-> tip,
                    recent |-> Recent(inserted)]
      /\ nsub' = nsub + 1
      /\ reports' = reports \cup
                      {[n |-> nsub + 1, t |-> clock, p |-> p, seed_val |-> seed_val,
                        kg_after |-> kg_after, feedback |-> feedback, tip |-> tip]}
      /\ UNCHANGED << clock, call >>

\* `else:` - a script run without a submission writes the prompt
Load ==
  /\ screen' = [kind |-> "prompt"]
  /\ UNCHANGED << clock, history, nsub, reports, call >>

\* the wall clock advances
Tick ==
  /\ clock < MaxClock
  /\ clock' = clock + 1
  /\ UNCHANGED << history, screen, nsub, reports, call >>

SubmitForm == \E p \in Purchases : nsub < MaxSubmits /\ Submit(p)

SubmitBurst == \E p \in BurstPurchases : nsub < MaxBurst /\ Submit(p)

---------------------------------------------------------------------------
(* Direct calls of the core functions, over well-typed arguments *)

CoreCategories ==
  {"Electronics (phone, laptop)", "Clothing (sustainable)", "Services / Subscriptions",
   "Misc / Other", "Pet supplies"}

TipCategories ==
  {"Flight / Travel booking (ticket)", "Electronics (phone, laptop)",
   "Clothing (fast fashion)", "Misc / Other", "Pet supplies"}

CorePrices == {-500, 0, 1, 4999, 10000}

CoreQuantities == (-1) .. MaxQuantity

CoreDistances ==
  {"Local (same city)", "National (within country)", "International (overseas)",
   "Orbital"}

CoreWeights == {None, Some(-10), Some(0), Some(5), Some(100), Some(101), Some(120)}

CoreSpeeds == {"Standard (5-8 days)", "Two-day", "Express / Overnight"}

CoreSeeds ==
  {[hi |-> h, lo |-> l] : h \in {0, 1, Word - 1},
                          l \in (0 .. MaxSeedLo) \cup {Word - 7, Word - 1}}

CoreKgs ==
  {0, 4999000, 5000000, 49999000, 50000000, 499999000, 500000000, 2000000000}

CoreLabels == {"AirPods Pro", "Electronics (phone, laptop)"}

Idle == [fn |-> "none"]

CallEstimate ==
  /\ call = Idle
  /\ \E category \in CoreCategories, price_usd \in CorePrices,
        quantity \in CoreQuantities, distance_level \in CoreDistances,
        weight_kg \in CoreWeights, shipping_speed \in CoreSpeeds :
       call' = [fn |-> "estimate_emission", category |-> category,
                price_usd |-> price_usd, quantity |-> quantity,
                distance_level |-> distance_level, weight_kg |-> weight_kg,
                shipping_speed |-> shipping_speed,
                ret |-> estimate_emission(category, price_usd, quantity,
                                          distance_level, weight_kg, shipping_speed)]
  /\ UNCHANGED << clock, history, screen, nsub, reports >>

CallFeedback ==
  /\ call = Idle
  /\ \E item_name \in CoreLabels, kg_co2 \in CoreKgs, seed_val \in CoreSeeds :
       call' = [fn |-> "choose_feedback", item_name |-> item_name,
                category |-> "Electronics (phone, laptop)", kg_co2 |-> kg_co2,
                seed_val |-> seed_val,
                ret |-> choose_feedback(item_name, "Electronics (phone, laptop)",
                                        kg_co2, seed_val)]
  /\ UNCHANGED << clock, history, screen, nsub, reports >>

CallTip ==
  /\ call = Idle
  /\ \E category \in TipCategories, distance \in CoreDistances,
        weight_kg \in CoreWeights, shipping_speed \in CoreSpeeds,
        seed_val \in CoreSeeds :
       call' = [fn |-> "choose_tip", category |-> category, distance |-> distance,
                weight_kg |-> weight_kg, shipping_speed |-> shipping_speed,
                seed_val |-> seed_val,
                ret |-> choose_tip(category, distance, weight_kg, shipping_speed,
                                   seed_val)]
  /\ UNCHANGED << clock, history, screen, nsub, reports >>

Return ==
  /\ call # Idle
  /\ call' = Idle
  /\ UNCHANGED << clock, history, screen, nsub, reports >>

---------------------------------------------------------------------------
(* Specifications *)

Init ==
  /\ clock = 0
  /\ history = << >>
  /\ screen = [kind |-> "prompt"]
  /\ nsub = 0
  /\ reports = {}
  /\ call = Idle

\* a session: page loads and submissions while the clock runs
Next == Tick \/ Load \/ SubmitForm

Spec == Init /\ [][Next]_vars

\* a burst of submissions within one clock tick
NextHistory == Load \/ SubmitBurst

SpecHistory == Init /\ [][NextHistory]_vars

\* the core functions called directly
NextCore == CallEstimate \/ CallFeedback \/ CallTip \/ Return

SpecCore == Init /\ [][NextCore]_vars

---------------------------------------------------------------------------
(* Claims *)

SameRequest(a, b) ==
  /\ Fields(a.p) = Fields(b.p)
  /\ a.t \div TicksPerMinute = b.t \div TicksPerMinute

\* C1: two requests with identical fields in the same UTC minute get the same
\* seed, a value in [0, 2^32), and with it the same tip and, for the same
\* post-offset kg, the same feedback, whatever was submitted in between.
C1_Reproducible ==
  \A a, b \in reports :
    SameRequest(a, b) =>
      /\ a.seed_val = b.seed_val
      /\ a.seed_val.hi \in 0 .. (Word - 1)
      /\ a.seed_val.lo \in 0 .. (Word - 1)
      /\ a.tip = b.tip
      /\ (a.kg_after = b.kg_after => a.feedback = b.feedback)

C1_Witness ==
  \E a, b, c \in reports :
    /\ a.n < c.n /\ c.n < b.n
    /\ a.t # b.t
    /\ SameRequest(a, b)
    /\ Fields(c.p) # Fields(a.p)
    /\ a.kg_after = b.kg_after
    /\ a.feedback = b.feedback
    /\ a.tip = b.tip

IsEstimate == call.fn = "estimate_emission"

IsFeedback == call.fn = "choose_feedback"

IsTip == call.fn = "choose_tip"

\* C2: a negative price or a quantity of zero or less is rejected with a
\* validation error: estimate_emission returns no kg value for it.
C2_RejectsContractViolation ==
  (IsEstimate /\ (call.price_usd < 0 \/ call.quantity <= 0)) =>
    call.ret.raised = "ValidationError"

ValidWeight(w) == w = None \/ w[1] >= 0

ValidEstimate ==
  /\ IsEstimate
  /\ call.price_usd >= 0
  /\ call.quantity >= 1
  /\ ValidWeight(call.weight_kg)

\* absent weight counts as the smallest weight
WeightLeq(w1, w2) == w1 = None \/ (w2 # None /\ w1[1] <= w2[1])

\* C3: for valid inputs the estimate is >= 0 and non-decreasing in price, in
\* quantity and in weight, the other fields held fixed.
C3_NonNegativeMonotone ==
  ValidEstimate =>
    /\ call.ret.kg >= 0
    /\ \A p2 \in CorePrices :
         p2 >= call.price_usd =>
           estimate_emission(call.category, p2, call.quantity, call.distance_level,
                             call.weight_kg, call.shipping_speed).kg >= call.ret.kg
    /\ \A q2 \in CoreQuantities :
         q2 >= call.quantity =>
           estimate_emission(call.category, call.price_usd, q2, call.distance_level,
                             call.weight_kg, call.shipping_speed).kg >= call.ret.kg
    /\ \A w2 \in CoreWeights :
         (ValidWeight(w2) /\ WeightLeq(call.weight_kg, w2)) =>
           estimate_emission(call.category, call.price_usd, call.quantity,
                             call.distance_level, w2, call.shipping_speed).kg
             >= call.ret.kg

C3_Witness ==
  /\ ValidEstimate
  /\ call.price_usd = 4999
  /\ call.quantity = 1
  /\ call.weight_kg = Some(5)
  /\ call.ret.kg > 0
  /\ estimate_emission(call.category, call.price_usd, call.quantity,
                       call.distance_level, Some(120), call.shipping_speed).kg
       > call.ret.kg

\* factor(category), the fallback category's for a category not in the table
FactorOf(category) ==
  IF category \in DOMAIN EMISSION_FACTORS THEN EMISSION_FACTORS[category]
  ELSE EMISSION_FACTORS["Misc / Other"]

\* sqrt(weightKg) * 1.5 when weight is present and > 0, otherwise 0
WeightPart(w) ==
  IF w # None /\ w[1] > 0 THEN IsqrtBetween(w[1] * 100000, 0, 46340) * 15000 ELSE 0

\* C4: with Local distance and Standard speed a valid estimate is exactly
\* price * factor(category) * quantity plus the weight term; Electronics at
\* price 100, quantity 1, no weight gives 30.0 kg.
C4_LocalStandardBaseline ==
  (/\ ValidEstimate
   /\ call.distance_level = "Local (same city)"
   /\ call.shipping_speed = "Standard (5-8 days)") =>
    /\ call.ret.kg = call.price_usd * FactorOf(call.category) * call.quantity * 1000
                       + WeightPart(call.weight_kg)
    /\ (/\ call.category = "Electronics (phone, laptop)"
        /\ call.price_usd = 10000
        /\ call.quantity = 1
        /\ call.weight_kg = None) => call.ret.kg = 300000000

C4_Witness ==
  /\ ValidEstimate
  /\ call.distance_level = "Local (same city)"
  /\ call.shipping_speed = "Standard (5-8 days)"
  /\ call.category = "Electronics (phone, laptop)"
  /\ call.price_usd = 10000
  /\ call.quantity = 1
  /\ call.weight_kg = None
  /\ call.ret.kg = 300000000

\* the distance and speed multipliers as one factor, in thousandths
Multipliers(distance_level, shipping_speed) ==
  (IF distance_level \in DOMAIN DISTANCE_MULTIPLIERS
   THEN DISTANCE_MULTIPLIERS[distance_level] ELSE 10)
  * (CASE shipping_speed = "Express / Overnight" -> 115
       [] shipping_speed = "Two-day" -> 107
       [] OTHER -> 100)

\* C5: estimate_emission never raises; an unknown category is computed with
\* the factor of 'Misc / Other', an absent or zero weight adds no weight term.
C5_TotalWithFallbacks ==
  IsEstimate =>
    /\ call.ret.raised = "none"
    /\ call.category \notin DOMAIN EMISSION_FACTORS =>
         call.ret = estimate_emission("Misc / Other", call.price_usd, call.quantity,
                                      call.distance_level, call.weight_kg,
                                      call.shipping_speed)
    /\ call.weight_kg \in {None, Some(0)} =>
         call.ret.kg = Max(call.price_usd * FactorOf(call.category) * call.quantity
                             * Multipliers(call.distance_level, call.shipping_speed),
                           0)

C5_Witness ==
  /\ IsEstimate
  /\ call.category = "Pet supplies"
  /\ call.weight_kg = Some(0)
  /\ call.price_usd = 4999
  /\ call.quantity = 2
  /\ call.ret.raised = "none"
  /\ call.ret.kg = 4999 * 16 * 2 * Multipliers(call.distance_level, call.shipping_speed)

Range(seq) == {seq[i] : i \in DOMAIN seq}

\* the four bands as the claim states them
Band(kg) ==
  CASE kg < 5000000 -> "mild"
    [] 5000000 <= kg /\ kg < 50000000 -> "noticeable"
    [] 50000000 <= kg /\ kg < 500000000 -> "strong"
    [] kg >= 500000000 -> "epic"

\* C6: the intensity line of the feedback comes from the pool of the band of
\* the kg value (< 0.5 mild, [0.5, 5) noticeable, [5, 50) strong, >= 50 epic)
\* and from no other pool.
C6_IntensityBands ==
  IsFeedback =>
    /\ Len(call.ret) = 3
    /\ \A band \in DOMAIN intensity_map :
         call.ret[2] \in Range(intensity_map[band]) <=> band = Band(call.kg_co2)

C6_Witness ==
  /\ IsFeedback
  /\ call.kg_co2 = 5000000
  /\ call.ret[2] \in Range(intensity_map["noticeable"])

RECURSIVE Draws(_, _)
\* the positions picked by successive choice calls of one generator over
\* sequences of the given lengths
Draws(r, sizes) ==
  IF sizes = << >> THEN << >>
  ELSE LET g == RandBelow(r, Head(sizes))
       IN  << g.val + 1 >> \o Draws(g.r, Tail(sizes))

\* the tip's draws: the first picks the template, the next the punchline;
\* the generator is seeded with seed + 7
TipDrawOrder ==
  IsTip =>
    LET candidates == Candidates(call.category)
        d == Draws(Random(SeedPlus(call.seed_val, 7)),
                   << Len(candidates), Len(PUNCHLINES) >>)
    IN  /\ call.ret[1] = Substitute(candidates[d[1]], "{category}", call.category)
        /\ call.ret[Len(call.ret)] = PUNCHLINES[d[2]]

\* C7 as claimed: feedback draws template, then intensity line, then suffix.
C7_Original ==
  /\ TipDrawOrder
  /\ IsFeedback =>
       LET pool == intensity_map[Band(call.kg_co2)]
           d == Draws(Random(call.seed_val),
                      << Len(FEEDBACK_TEMPLATES), Len(pool), Len(SARCASTIC_SUFFIXES) >>)
       IN  call.ret = << Substitute(FEEDBACK_TEMPLATES[d[1]], "{item}", call.item_name),
                         pool[d[2]], SARCASTIC_SUFFIXES[d[3]] >>

\* C7, amended: in choose_feedback the first draw picks the sentence template,
\* the second the suffix and the third the intensity line; in choose_tip the
\* first picks the template and the next the punchline; feedback seeds its
\* generator with seed, tip with seed + 7.
C7_DrawOrder ==
  /\ TipDrawOrder
  /\ IsFeedback =>
       LET pool == intensity_map[Band(call.kg_co2)]
           d == Draws(Random(call.seed_val),
                      << Len(FEEDBACK_TEMPLATES), Len(SARCASTIC_SUFFIXES), Len(pool) >>)
       IN  call.ret = << Substitute(FEEDBACK_TEMPLATES[d[1]], "{item}", call.item_name),
                         pool[d[3]], SARCASTIC_SUFFIXES[d[2]] >>

C7_Witness ==
  /\ IsFeedback
  /\ LET pool == intensity_map[Band(call.kg_co2)]
         d == Draws(Random(call.seed_val),
                    << Len(FEEDBACK_TEMPLATES), Len(SARCASTIC_SUFFIXES), Len(pool) >>)
         o == Draws(Random(call.seed_val),
                    << Len(FEEDBACK_TEMPLATES), Len(pool), Len(SARCASTIC_SUFFIXES) >>)
     IN  /\ call.ret[3] = SARCASTIC_SUFFIXES[d[2]]
         /\ call.ret[2] = pool[d[3]]
         /\ call.ret[3] # SARCASTIC_SUFFIXES[o[3]]
         /\ call.ret[2] # pool[o[2]]

\* the clauses that qualify, by priority, cut to the first two
ExpectedExtras(express, heavy, international) ==
  CASE express /\ heavy -> << ExtraExpress, ExtraHeavy >>
    [] express /\ ~heavy /\ international -> << ExtraExpress, ExtraInternational >>
    [] express /\ ~heavy /\ ~international -> << ExtraExpress >>
    [] ~express /\ heavy /\ international -> << ExtraHeavy, ExtraInternational >>
    [] ~express /\ heavy /\ ~international -> << ExtraHeavy >>
    [] ~express /\ ~heavy /\ international -> << ExtraInternational >>
    [] OTHER -> << >>

\* C8: the tip is its template text, then at most two extra clauses, the
\* first two that qualify in the order Express, weight > 10, International,
\* then the punchline.
C8_ExtraClauses ==
  IsTip =>
    LET expected ==
          ExpectedExtras(call.shipping_speed = "Express / Overnight",
                         call.weight_kg # None /\ call.weight_kg[1] > 100,
                         call.distance = "International (overseas)")
        n == Len(call.ret)
    IN  /\ n = 2 + Len(expected)
        /\ SubSeq(call.ret, 2, n - 1) = expected
        /\ call.ret[1] \in {Substitute(TIPS_TEMPLATES[i].text, "{category}", call.category) :
                              i \in DOMAIN TIPS_TEMPLATES}
        /\ call.ret[n] \in Range(PUNCHLINES)

C8_Witness ==
  /\ IsTip
  /\ call.shipping_speed = "Express / Overnight"
  /\ call.weight_kg = Some(101)
  /\ call.distance = "International (overseas)"
  /\ Len(call.ret) = 4
  /\ call.ret[2] = ExtraExpress
  /\ call.ret[3] = ExtraHeavy
  /\ call.ret[4] \in Range(PUNCHLINES)

\* the templates that are unconditional or conditioned on the category
Filtered(category) ==
  {i \in DOMAIN TIPS_TEMPLATES :
     \/ TIPS_TEMPLATES[i].categories = None
     \/ category \in TIPS_TEMPLATES[i].categories[1]}

\* C9: the tip template is one of those that are unconditional or conditioned
\* on the category; any template only when there is none of those.
C9_FilteredTemplates ==
  IsTip =>
    LET allowed == IF Filtered(call.category) = {} THEN DOMAIN TIPS_TEMPLATES
                   ELSE Filtered(call.category)
    IN  call.ret[1] \in {Substitute(TIPS_TEMPLATES[i].text, "{category}", call.category) :
                           i \in allowed}

C9_Witness ==
  /\ IsTip
  /\ call.category = "Flight / Travel booking (ticket)"
  /\ call.ret[1] = Substitute(TIPS_TEMPLATES[3].text, "{category}", call.category)

\* the kg of a purchase before and after the offset
KgOf(p) ==
  estimate_emission(p.category, p.price, p.quantity, p.distance,
                    IF p.weight > 0 THEN Some(p.weight) ELSE None,
                    p.shipping_speed).kg

KgAfterOf(p) == IF p.donate_offset THEN KgOf(p) - ((KgOf(p) + 9) \div 10) ELSE KgOf(p)

\* a kg value rounded to three decimals, ties to even
ToTheGram(kg) ==
  LET below == kg - (kg % 10000)
      above == below + 10000
  IN  IF kg - below < above - kg THEN below
      ELSE IF kg - below > above - kg THEN above
      ELSE IF (below \div 10000) % 2 = 0 THEN below ELSE above

\* after n submissions the history holds n entries, the k-th submission's
\* entry at place n - k + 1, and the list shown is its first min(n, 7) entries
HistoryShape(rounded) ==
  /\ Len(history) = nsub
  /\ Cardinality(reports) = nsub
  /\ \A r \in reports :
       /\ r.n \in 1 .. nsub
       /\ r.kg_after = KgAfterOf(r.p)
       /\ history[nsub - r.n + 1] =
            [time |-> r.t, item |-> r.p.item_name, category |-> r.p.category,
             price |-> r.p.price, quantity |-> r.p.quantity,
             kg_co2 |-> IF rounded THEN ToTheGram(r.kg_after) ELSE r.kg_after]
  /\ screen.kind = "report" =>
       /\ Len(screen.recent) = Min(nsub, 7)
       /\ \A i \in 1 .. Len(screen.recent) : screen.recent[i] = history[i]

\* C10 as claimed: the recorded kg is the post-offset value itself.
C10_Original == HistoryShape(FALSE)

\* C10, amended: the history is newest-first and append-only, n entries after
\* n submissions, each submission's entry put at the front and never changed,
\* the list shown is the first min(n, 7) entries, and the recorded kg is the
\* post-offset value (kg * 0.90 when the box is ticked) rounded to three
\* decimals.
C10_History == HistoryShape(TRUE)

C10_Witness ==
  /\ nsub = 8
  /\ Len(history) = 8
  /\ screen.kind = "report"
  /\ Len(screen.recent) = 7
  /\ \E r \in reports :
       /\ r.p.donate_offset
       /\ r.n = 1
       /\ history[8].kg_co2 # r.kg_after
       /\ history[8].kg_co2 = ToTheGram(r.kg_after)
  /\ \E r \in reports : ~r.p.donate_offset

====
